---- MODULE Spec2Model ----
(***************************************************************************)
(* DeepShield API (backend/main.py): the two heuristic scorers             *)
(* analyze_text and analyze_image, one request at a time.                  *)
(*                                                                         *)
(* Probabilities are exact rationals <<num, den>> (den > 0).  The jitter   *)
(* random.uniform(-0.05, 0.05) is drawn from a grid of step                *)
(* 1/(100*JitterRes).  What the handlers read from the text or the image   *)
(* (counts, sentences, dimensions, extrema, tags) is drawn where the code  *)
(* reads it; the draws over-approximate the texts and images that exist.   *)
(* The label and the confidence at jitter 0 are the same in exact and in   *)
(* double arithmetic for every pair of tallies the signals can produce;    *)
(* with a non-zero jitter the truncation int(p * 100) of a double can be   *)
(* one below the exact floor, always inside the same clamp band.           *)
(***************************************************************************)
EXTENDS Integers, Sequences, FiniteSets, TLC

VARIABLES pc, route, content_type, contents_len, bytes_read, decode_attempted,
          width, height, stat, exif, ai_score, human_score,
          text_len, ai_indicators, human_indicators,
          jitter, ai_probability, response, error

vars == <<pc, route, content_type, contents_len, bytes_read, decode_attempted,
          width, height, stat, exif, ai_score, human_score,
          text_len, ai_indicators, human_indicators,
          jitter, ai_probability, response, error>>

imgVars == <<content_type, contents_len, bytes_read, decode_attempted,
             width, height, stat, exif, ai_score, human_score>>

textVars == <<text_len, ai_indicators, human_indicators>>

outVars == <<jitter, ai_probability, response, error>>

(***************************************************************************)
(* Bounds of the model                                                     *)
(***************************************************************************)
JitterRes == 1
MaxTags == 6
MaxSentences == 3
MaxCount == 3
MaxWords == 4

(***************************************************************************)
(* Program constants                                                       *)
(***************************************************************************)
MinTextLen == 50
MaxFileBytes == 5 * 1024 * 1024
JitterPct == 5
TextConfLo == 60
TextConfHi == 90
ImageConfLo == 65
ImageConfHi == 88

(***************************************************************************)
(* Arithmetic                                                              *)
(***************************************************************************)
Max(a, b) == IF a >= b THEN a ELSE b
Min(a, b) == IF a <= b THEN a ELSE b
Abs(a) == IF a >= 0 THEN a ELSE -a

RatLess(p, q) == p[1] * q[2] < q[1] * p[2]
RatAdd(p, q) == <<p[1] * q[2] + q[1] * p[2], p[2] * q[2]>>
RatMax(p, q) == IF RatLess(p, q) THEN q ELSE p
RatMin(p, q) == IF RatLess(q, p) THEN q ELSE p
OneMinus(p) == <<p[2] - p[1], p[2]>>
\* int(p * 100) for p >= 0
IntTimes100(p) == (p[1] * 100) \div p[2]

RECURSIVE SumSeq(_)
SumSeq(s) == IF s = <<>> THEN 0 ELSE s[1] + SumSeq(Tail(s))

RECURSIVE SumSq(_)
SumSq(s) == IF s = <<>> THEN 0 ELSE s[1] * s[1] + SumSq(Tail(s))

(***************************************************************************)
(* Responses and errors                                                    *)
(***************************************************************************)
NoResponse == [status |-> "", confidence |-> 0]
NoError == [status_code |-> 0, detail |-> ""]
AnalysisResponse(st, conf) == [status |-> st, confidence |-> conf]
HTTPException(code, det) == [status_code |-> code, detail |-> det]

\* random.uniform(-0.05, 0.05)
Jitters ==
    {<<k, 100 * JitterRes>> : k \in -(JitterPct * JitterRes) .. (JitterPct * JitterRes)}

\* ai_probability = max(0.0, min(1.0, ai_probability + jitter))
ApplyJitter(p, j) == RatMax(<<0, 1>>, RatMin(<<1, 1>>, RatAdd(p, j)))

IsAIMut(p) == ~RatLess(p, <<1, 2>>)
\* is_ai = ai_probability > 0.5
IsAI(p) == RatLess(<<1, 2>>, p)

\* confidence = int(p * 100) if is_ai else int((1 - p) * 100)
RawConfidence(p) == IF IsAI(p) THEN IntTimes100(p) ELSE IntTimes100(OneMinus(p))

StatusOf(p) == IF IsAI(p) THEN "ai-generated" ELSE "real"

(***************************************************************************)
(* analyze_image                                                           *)
(***************************************************************************)
ContentTypes == {"", "text/plain", "application/pdf", "image/png", "image/jpeg"}

StartsWith(s, prefix) == Len(s) >= Len(prefix) /\ SubSeq(s, 1, Len(prefix)) = prefix

InvalidContentTypeMut(ct) == FALSE
\* not file.content_type or not file.content_type.startswith("image/")
InvalidContentType(ct) == ct = "" \/ ~StartsWith(ct, "image/")

InvalidTypeDetail == "Invalid file type. Please upload an image (JPG, PNG, WebP)"
FileSizeDetail == "File size exceeds 5MB limit"
DecodeFailures == {"cannot identify image file", "image file is truncated"}

FileSizes == {1024, 2 * 512 * 512, 3 * 512 * 512, MaxFileBytes, MaxFileBytes + 1}

\* len(contents) > 5 * 1024 * 1024
FileTooLarge(n) == n > MaxFileBytes

\* str(e) of an HTTPException: "<status_code>: <detail>" where the framework
\* defines __str__, the empty string where it does not
StatusText(code) == IF code = 400 THEN "400" ELSE "500"
StrOfHTTPException(e) == {StatusText(e.status_code) \o ": " \o e.detail, ""}

\* except Exception as e: raise HTTPException(400, f"Invalid image file: {str(e)}")
WrapInvalidImage(msg) == HTTPException(400, "Invalid image file: " \o msg)

common_ai_dimensions ==
    << <<512, 512>>, <<1024, 1024>>, <<768, 768>>,
       <<1024, 1024>>, <<1792, 1024>>, <<1024, 1792>>,
       <<1024, 576>>, <<576, 1024>> >>

InList(x, l) == \E i \in 1 .. Len(l) : l[i] = x

\* sizes an image can decode to
ImageSizes ==
    {common_ai_dimensions[i] : i \in 1 .. Len(common_ai_dimensions)}
    \cup {<<640, 480>>, <<1920, 1080>>, <<500, 500>>, <<1280, 768>>,
          <<640, 640>>, <<300, 200>>, <<333, 517>>, <<1024, 768>>}

\* (width, height) in common_ai_dimensions or (height, width) in common_ai_dimensions
DimensionMatch(w, h) ==
    InList(<<w, h>>, common_ai_dimensions) \/ InList(<<h, w>>, common_ai_dimensions)

GridAlignedMut(w, h) == w % 128 = 0 /\ h % 128 = 0
\* multiples of 128, or multiples of 64
GridAligned(w, h) ==
    (w % 128 = 0 /\ h % 128 = 0) \/ (w % 64 = 0 /\ h % 64 = 0)

\* in hundredths
perfect_ratios == <<100, 150, 67, 177, 56, 191>>

\* aspect_ratio = width / height if height > 0 else 1;
\* any(abs(aspect_ratio - ratio) < 0.05 for ratio in perfect_ratios)
PerfectAspect(w, h) ==
    LET num == IF h > 0 THEN w ELSE 1
        den == IF h > 0 THEN h ELSE 1
    IN \E i \in 1 .. Len(perfect_ratios) :
          Abs(100 * num - perfect_ratios[i] * den) < 5 * den

\* pixels > 0 and 2.0 <= file_size / pixels <= 4.0
TypicalBytesPerPixel(file_size, w, h) ==
    LET pixels == w * h
    IN pixels > 0 /\ 2 * pixels <= file_size /\ file_size <= 4 * pixels

\* (min, max) of one channel
ChannelExtrema == {<<0, 255>>, <<1, 254>>, <<128, 128>>, <<40, 215>>}
NoStat == [kind |-> "unset", val |-> << <<0, 0>>, <<0, 0>>, <<0, 0>> >>]
\* image.getextrema() of an RGB image, or an exception in the try block
StatOutcomes ==
    {[kind |-> "ok", val |-> <<r, g, b>>] : r \in ChannelExtrema, g \in ChannelExtrema,
                                            b \in ChannelExtrema}
    \cup {[kind |-> "raise", val |-> NoStat.val]}

\* sum of ranges = [max_val - min_val for min_val, max_val in stat]
RangeSum(s) == SumSeq([i \in 1 .. 3 |-> s[i][2] - s[i][1]])

\* any(min_val == 0 or max_val == 255 for min_val, max_val in stat)
PureBlackOrWhite(s) == \E i \in 1 .. 3 : s[i][1] = 0 \/ s[i][2] = 255

Signal5Mut(st, scores) ==
    LET ai1 == IF RangeSum(st.val) > 600 THEN scores[1] + 2 ELSE scores[1]
        hu1 == IF RangeSum(st.val) <= 600 /\ RangeSum(st.val) < 450
                 THEN scores[2] + 1 ELSE scores[2]
    IN IF st.kind = "raise" THEN <<ai1, hu1>>
       ELSE <<IF PureBlackOrWhite(st.val) THEN ai1 + 1 ELSE ai1, hu1>>
\* signal 5: the try block of the color properties; scores is <<ai_score, human_score>>.
\* getextrema and the unpacking of ranges are the statements that can raise,
\* and both come before the first assignment to a score.
Signal5(st, scores) ==
    IF st.kind = "raise" THEN scores
    ELSE LET ai1 == IF RangeSum(st.val) > 600 THEN scores[1] + 2 ELSE scores[1]
             hu1 == IF RangeSum(st.val) <= 600 /\ RangeSum(st.val) < 450
                      THEN scores[2] + 1 ELSE scores[2]
         IN <<IF PureBlackOrWhite(st.val) THEN ai1 + 1 ELSE ai1, hu1>>

NoExif == [kind |-> "unset", tags |-> 0]
\* image.getexif(): a mapping of tags, or an exception
ExifOutcomes ==
    {[kind |-> "ok", tags |-> n] : n \in 0 .. MaxTags} \cup {[kind |-> "raise", tags |-> 0]}

Signal6Mut(ex, scores) ==
    IF ex.kind = "raise" THEN <<scores[1] + 1, scores[2]>>
    ELSE IF ex.tags > 0 /\ ex.tags > 5 THEN <<scores[1], scores[2] + 3>>
    ELSE <<scores[1] + 1, scores[2]>>
\* signal 6: exif and len(exif) > 5 -> human +3, else ai +2; except: ai +1
Signal6(ex, scores) ==
    IF ex.kind = "raise" THEN <<scores[1] + 1, scores[2]>>
    ELSE IF ex.tags > 0 /\ ex.tags > 5 THEN <<scores[1], scores[2] + 3>>
    ELSE <<scores[1] + 2, scores[2]>>

\* ai_probability before the jitter
ImageProbability(ai, human) == IF ai + human = 0 THEN <<1, 2>> ELSE <<ai, ai + human>>

ImageConfidenceMut(c) == Min(ImageConfHi, c)
\* confidence = max(65, min(88, confidence))
ImageConfidence(c) == Max(ImageConfLo, Min(ImageConfHi, c))

(***************************************************************************)
(* analyze_text                                                            *)
(***************************************************************************)
TextLens == {0, 49, 50, 51, 150, 151, 200, 201}

TooShortDetail == "Text must be at least 50 characters long for accurate analysis"

TextTooShortMut(n) == n <= MinTextLen
\* len(request.text) < 50
TextTooShort(n) == n < MinTextLen

\* a sentence: its number of words and, with two words or more, its
\* lowercased first two words
SentenceWordCounts == {1, 2, 3, 12}
Openers == {"it is", "we can"}
Sentences ==
    {[nwords |-> 1, start |-> ""]}
    \cup {[nwords |-> n, start |-> o] : n \in SentenceWordCounts \ {1}, o \in Openers}

SentenceLists == UNION {[1 .. n -> Sentences] : n \in 0 .. MaxSentences}

\* the fewest characters a text with these sentences has
MinChars(sentences) ==
    SumSeq([i \in 1 .. Len(sentences) |-> 2 * sentences[i].nwords - 1])
    + Max(0, Len(sentences) - 1)

\* signal 1: with 3 sentences or more, variance of the word counts < 20 -> ai +2,
\* else human +1; tallies is <<ai_indicators, human_indicators>>
TextSignal1(sentences, tallies) ==
    LET n == Len(sentences)
        sentence_lengths == [i \in 1 .. n |-> sentences[i].nwords]
        \* n^2 * variance
        nnVar == n * SumSq(sentence_lengths)
                 - SumSeq(sentence_lengths) * SumSeq(sentence_lengths)
    IN IF n >= 3
       THEN IF nnVar < 20 * n * n
            THEN <<tallies[1] + 2, tallies[2]>>
            ELSE <<tallies[1], tallies[2] + 1>>
       ELSE tallies

\* signal 2: two formal transitions or more -> ai +2
TextSignal2(formal_count, tallies) ==
    IF formal_count >= 2 THEN <<tallies[1] + 2, tallies[2]>> ELSE tallies

\* common_starts[start]
CommonStarts(sentences, o) ==
    Cardinality({i \in 1 .. Len(sentences) :
                    sentences[i].nwords >= 2 /\ sentences[i].start = o})

\* signal 3: a two-word opener used 3 times or more -> ai +2
TextSignal3(sentences, tallies) ==
    IF \E o \in Openers : CommonStarts(sentences, o) >= 3
    THEN <<tallies[1] + 2, tallies[2]>> ELSE tallies

\* signal 4: hedging
TextSignal4(hedging_count, tallies) ==
    IF hedging_count >= 3 THEN <<tallies[1] + 1, tallies[2]>> ELSE tallies

\* signal 5: first person
TextSignal5(personal_pronouns, len, tallies) ==
    IF personal_pronouns >= 2 THEN <<tallies[1], tallies[2] + 2>>
    ELSE IF personal_pronouns = 0 /\ len > 200 THEN <<tallies[1] + 1, tallies[2]>>
    ELSE tallies

\* signal 6: contractions
TextSignal6(contraction_count, len, tallies) ==
    IF contraction_count >= 2 THEN <<tallies[1], tallies[2] + 2>>
    ELSE IF contraction_count = 0 /\ len > 150 THEN <<tallies[1] + 1, tallies[2]>>
    ELSE tallies

\* signal 7: '!' and '?'
TextSignal7(excitement, tallies) ==
    IF excitement >= 2 THEN <<tallies[1], tallies[2] + 1>> ELSE tallies

\* signal 8: lists
TextSignal8(dashes, stars, numbered, tallies) ==
    IF dashes >= 2 \/ stars >= 2 \/ numbered >= 1
    THEN <<tallies[1] + 1, tallies[2]>> ELSE tallies

\* signal 9: ' alot ', ' there ', ' their '
TextSignal9(alot, there, their, tallies) ==
    IF alot \/ there \/ their THEN <<tallies[1], tallies[2] + 1>> ELSE tallies

\* the (unique_words, total_words) of a text
WordStats ==
    {<<0, 0>>} \cup {ws \in (1 .. MaxWords) \X (1 .. MaxWords) : ws[1] <= ws[2]}

\* signal 10: diversity = unique_words / total_words; > 0.7 human +1, < 0.5 ai +1
TextSignal10(unique_words, total_words, tallies) ==
    IF total_words > 0
    THEN IF 10 * unique_words > 7 * total_words THEN <<tallies[1], tallies[2] + 1>>
         ELSE IF 2 * unique_words < total_words THEN <<tallies[1] + 1, tallies[2]>>
         ELSE tallies
    ELSE tallies

TextProbabilityMut(ai, human) == IF ai + human = 0 THEN <<1, 2>> ELSE <<ai, ai + human>>
\* ai_probability before the jitter
TextProbability(ai, human) == IF ai + human = 0 THEN <<45, 100>> ELSE <<ai, ai + human>>

TextConfidenceMut(c) == Max(TextConfLo, c)
\* confidence = max(60, min(90, confidence))
TextConfidence(c) == Max(TextConfLo, Min(TextConfHi, c))

(***************************************************************************)
(* The state machine                                                       *)
(***************************************************************************)
Init ==
    /\ pc = "idle"
    /\ route = ""
    /\ content_type = ""
    /\ contents_len = 0
    /\ bytes_read = FALSE
    /\ decode_attempted = FALSE
    /\ width = 0
    /\ height = 0
    /\ stat = NoStat
    /\ exif = NoExif
    /\ ai_score = 0
    /\ human_score = 0
    /\ text_len = 0
    /\ ai_indicators = 0
    /\ human_indicators = 0
    /\ jitter = <<0, 1>>
    /\ ai_probability = <<0, 1>>
    /\ response = NoResponse
    /\ error = NoError

\* POST /analyze/image arrives: the content type check
ImgValidateType ==
    /\ pc = "idle"
    /\ route' = "image"
    /\ \E ct \in ContentTypes :
          /\ content_type' = ct
          /\ IF InvalidContentType(ct)
             THEN /\ error' = HTTPException(400, InvalidTypeDetail)
                  /\ pc' = "done"
             ELSE /\ error' = error
                  /\ pc' = "img_read"
    /\ UNCHANGED <<contents_len, bytes_read, decode_attempted, width, height, stat, exif,
                   ai_score, human_score, textVars, jitter, ai_probability, response>>

\* contents = await file.read()
ImgRead ==
    /\ pc = "img_read"
    /\ \E n \in FileSizes : contents_len' = n
    /\ bytes_read' = TRUE
    /\ pc' = "img_size"
    /\ UNCHANGED <<route, content_type, decode_attempted, width, height, stat, exif,
                   ai_score, human_score, textVars, outVars>>

\* the size check, inside the try whose handler rewraps every Exception
ImgCheckSize ==
    /\ pc = "img_size"
    /\ IF FileTooLarge(contents_len)
       THEN /\ \E msg \in StrOfHTTPException(HTTPException(400, FileSizeDetail)) :
                  error' = WrapInvalidImage(msg)
            /\ pc' = "done"
       ELSE /\ error' = error
            /\ pc' = "img_decode"
    /\ UNCHANGED <<route, imgVars, textVars, jitter, ai_probability, response>>

\* Image.open, verify, reopen, convert('RGB')
ImgDecode ==
    /\ pc = "img_decode"
    /\ decode_attempted' = TRUE
    /\ \/ \E m \in DecodeFailures :
             /\ error' = WrapInvalidImage(m)
             /\ pc' = "done"
             /\ UNCHANGED <<width, height>>
       \/ \E d \in ImageSizes :
             /\ width' = d[1]
             /\ height' = d[2]
             /\ pc' = "img_sig1"
             /\ error' = error
    /\ UNCHANGED <<route, content_type, contents_len, bytes_read, stat, exif,
                   ai_score, human_score, textVars, jitter, ai_probability, response>>

ImgSignal1 ==
    /\ pc = "img_sig1"
    /\ ai_score' = IF DimensionMatch(width, height) THEN ai_score + 3 ELSE ai_score
    /\ pc' = "img_sig2"
    /\ UNCHANGED <<route, content_type, contents_len, bytes_read, decode_attempted, width, height,
                   stat, exif, human_score, textVars, outVars>>

ImgSignal2 ==
    /\ pc = "img_sig2"
    /\ IF GridAligned(width, height)
       THEN ai_score' = ai_score + 2 /\ human_score' = human_score
       ELSE human_score' = human_score + 1 /\ ai_score' = ai_score
    /\ pc' = "img_sig3"
    /\ UNCHANGED <<route, content_type, contents_len, bytes_read, decode_attempted, width, height,
                   stat, exif, textVars, outVars>>

ImgSignal3 ==
    /\ pc = "img_sig3"
    /\ ai_score' = IF PerfectAspect(width, height) THEN ai_score + 1 ELSE ai_score
    /\ pc' = "img_sig4"
    /\ UNCHANGED <<route, content_type, contents_len, bytes_read, decode_attempted, width, height,
                   stat, exif, human_score, textVars, outVars>>

ImgSignal4 ==
    /\ pc = "img_sig4"
    /\ ai_score' = IF TypicalBytesPerPixel(contents_len, width, height)
                     THEN ai_score + 1 ELSE ai_score
    /\ pc' = "img_sig5"
    /\ UNCHANGED <<route, content_type, contents_len, bytes_read, decode_attempted, width, height,
                   stat, exif, human_score, textVars, outVars>>

ImgSignal5 ==
    /\ pc = "img_sig5"
    /\ \E st \in StatOutcomes :
          /\ stat' = st
          /\ ai_score' = Signal5(st, <<ai_score, human_score>>)[1]
          /\ human_score' = Signal5(st, <<ai_score, human_score>>)[2]
    /\ pc' = "img_sig6"
    /\ UNCHANGED <<route, content_type, contents_len, bytes_read, decode_attempted, width, height,
                   exif, textVars, outVars>>

ImgSignal6 ==
    /\ pc = "img_sig6"
    /\ \E ex \in ExifOutcomes :
          /\ exif' = ex
          /\ ai_score' = Signal6(ex, <<ai_score, human_score>>)[1]
          /\ human_score' = Signal6(ex, <<ai_score, human_score>>)[2]
    /\ pc' = "img_score"
    /\ UNCHANGED <<route, content_type, contents_len, bytes_read, decode_attempted, width, height,
                   stat, textVars, outVars>>

\* the final probability, the jitter, the label and the confidence
ImgScore ==
    /\ pc = "img_score"
    /\ \E j \in Jitters :
          /\ jitter' = j
          /\ ai_probability' = ApplyJitter(ImageProbability(ai_score, human_score), j)
    /\ response' = AnalysisResponse(StatusOf(ai_probability'),
                                    ImageConfidence(RawConfidence(ai_probability')))
    /\ pc' = "done"
    /\ UNCHANGED <<route, imgVars, textVars, error>>

\* POST /analyze/text arrives: the length check
TextValidate ==
    /\ pc = "idle"
    /\ route' = "text"
    /\ \E n \in TextLens :
          /\ text_len' = n
          /\ IF TextTooShort(n)
             THEN /\ error' = HTTPException(400, TooShortDetail)
                  /\ pc' = "done"
             ELSE /\ error' = error
                  /\ pc' = "text_sig1"
    /\ UNCHANGED <<imgVars, ai_indicators, human_indicators, jitter, ai_probability,
                   response>>

\* signals 1 to 3 read the same list of sentences
TextSignals1to3 ==
    /\ pc = "text_sig1"
    /\ \E sentences \in SentenceLists, formal_count \in 0 .. MaxCount :
          /\ MinChars(sentences) <= text_len
          /\ LET t1 == TextSignal1(sentences, <<ai_indicators, human_indicators>>)
                 t2 == TextSignal2(formal_count, t1)
                 t3 == TextSignal3(sentences, t2)
             IN ai_indicators' = t3[1] /\ human_indicators' = t3[2]
    /\ pc' = "text_sig4"
    /\ UNCHANGED <<route, imgVars, text_len, outVars>>

TextStep(from, to, tallies) ==
    /\ pc = from
    /\ ai_indicators' = tallies[1]
    /\ human_indicators' = tallies[2]
    /\ pc' = to
    /\ UNCHANGED <<route, imgVars, text_len, outVars>>

TextSig4 ==
    \E hedging_count \in 0 .. MaxCount :
       TextStep("text_sig4", "text_sig5",
                TextSignal4(hedging_count, <<ai_indicators, human_indicators>>))

TextSig5 ==
    \E personal_pronouns \in 0 .. MaxCount :
       TextStep("text_sig5", "text_sig6",
                TextSignal5(personal_pronouns, text_len, <<ai_indicators, human_indicators>>))

TextSig6 ==
    \E contraction_count \in 0 .. MaxCount :
       TextStep("text_sig6", "text_sig7",
                TextSignal6(contraction_count, text_len, <<ai_indicators, human_indicators>>))

TextSig7 ==
    \E excitement \in 0 .. MaxCount :
       TextStep("text_sig7", "text_sig8",
                TextSignal7(excitement, <<ai_indicators, human_indicators>>))

TextSig8 ==
    \E dashes \in 0 .. MaxCount, stars \in 0 .. MaxCount, numbered \in 0 .. MaxCount :
       TextStep("text_sig8", "text_sig9",
                TextSignal8(dashes, stars, numbered, <<ai_indicators, human_indicators>>))

TextSig9 ==
    \E alot \in BOOLEAN, there \in BOOLEAN, their \in BOOLEAN :
       TextStep("text_sig9", "text_sig10",
                TextSignal9(alot, there, their, <<ai_indicators, human_indicators>>))

TextSig10 ==
    \E ws \in WordStats :
       TextStep("text_sig10", "text_score",
                TextSignal10(ws[1], ws[2], <<ai_indicators, human_indicators>>))

TextScore ==
    /\ pc = "text_score"
    /\ \E j \in Jitters :
          /\ jitter' = j
          /\ ai_probability' = ApplyJitter(TextProbability(ai_indicators, human_indicators), j)
    /\ response' = AnalysisResponse(StatusOf(ai_probability'),
                                    TextConfidence(RawConfidence(ai_probability')))
    /\ pc' = "done"
    /\ UNCHANGED <<route, imgVars, textVars, error>>

\* the response or the error is sent; the next request starts from scratch
Respond ==
    /\ pc = "done"
    /\ pc' = "idle"
    /\ route' = ""
    /\ content_type' = ""
    /\ contents_len' = 0
    /\ bytes_read' = FALSE
    /\ decode_attempted' = FALSE
    /\ width' = 0
    /\ height' = 0
    /\ stat' = NoStat
    /\ exif' = NoExif
    /\ ai_score' = 0
    /\ human_score' = 0
    /\ text_len' = 0
    /\ ai_indicators' = 0
    /\ human_indicators' = 0
    /\ jitter' = <<0, 1>>
    /\ ai_probability' = <<0, 1>>
    /\ response' = NoResponse
    /\ error' = NoError

Next ==
    \/ ImgValidateType
    \/ ImgRead
    \/ ImgCheckSize
    \/ ImgDecode
    \/ ImgSignal1
    \/ ImgSignal2
    \/ ImgSignal3
    \/ ImgSignal4
    \/ ImgSignal5
    \/ ImgSignal6
    \/ ImgScore
    \/ TextValidate
    \/ TextSignals1to3
    \/ TextSig4
    \/ TextSig5
    \/ TextSig6
    \/ TextSig7
    \/ TextSig8
    \/ TextSig9
    \/ TextSig10
    \/ TextScore
    \/ Respond

Spec == Init /\ [][Next]_vars

(***************************************************************************)
(* Properties                                                              *)
(***************************************************************************)
Labels == {"real", "ai-generated"}

TextDone == pc = "done" /\ route = "text"
ImageDone == pc = "done" /\ route = "image"

\* C1: every text of 50 characters or more gets a response, never an error,
\* with status "real" or "ai-generated" and an integer confidence in 60..90,
\* whatever the signals and the jitter.
C1_TextResponseInBand ==
    (TextDone /\ text_len >= 50) =>
        /\ error = NoError
        /\ response.status \in Labels
        /\ response.confidence \in 60 .. 90

\* a text whose unclamped confidence is above the band
C1_Witness ==
    /\ TextDone /\ text_len >= 50
    /\ RawConfidence(ai_probability) > 90
    /\ response = AnalysisResponse("ai-generated", 90)

\* C2: every decoded image of an accepted upload gets a response with status
\* "real" or "ai-generated" and an integer confidence in 65..88, whatever the
\* signals and the jitter.
C2_ImageResponseInBand ==
    (ImageDone /\ StartsWith(content_type, "image/") /\ contents_len <= 5 * 1024 * 1024
       /\ width > 0) =>
        /\ error = NoError
        /\ response.status \in Labels
        /\ response.confidence \in 65 .. 88

\* an image whose unclamped confidence is below the band
C2_Witness ==
    /\ ImageDone /\ width > 0
    /\ RawConfidence(ai_probability) < 65
    /\ response = AnalysisResponse("real", 65)

\* C3: an upload of more than 5 MiB is rejected with status 400 and the
\* message "File size exceeds 5MB limit", and no score is produced.
C3_OversizeExactMessage ==
    (ImageDone /\ bytes_read /\ contents_len > 5 * 1024 * 1024) =>
        /\ error.status_code = 400
        /\ error.detail = "File size exceeds 5MB limit"
        /\ response = NoResponse

\* C4: a text shorter than 50 characters is rejected with status 400 and the
\* message below before any indicator is computed and without a response; a
\* text of 50 characters or more is never rejected.
C4_ShortTextRejected ==
    (route = "text") =>
        /\ text_len < 50 =>
              /\ pc = "done"
              /\ error = [status_code |-> 400,
                          detail |-> "Text must be at least 50 characters long for accurate analysis"]
              /\ response = NoResponse
              /\ ai_indicators = 0 /\ human_indicators = 0
        /\ text_len >= 50 => error = NoError

\* a text of 49 characters, rejected
C4_Witness ==
    /\ TextDone /\ text_len = 49
    /\ error.status_code = 400

\* C5: content type, then size, then decode: an upload whose content type
\* is missing or does not start with "image/" is rejected with status 400 and
\* the message below, its bytes are never read and no decode is attempted.
C5_TypeCheckedFirst ==
    (route = "image") =>
        /\ ~StartsWith(content_type, "image/") =>
              /\ pc = "done"
              /\ error = [status_code |-> 400,
                          detail |-> "Invalid file type. Please upload an image (JPG, PNG, WebP)"]
              /\ ~bytes_read
              /\ ~decode_attempted
              /\ response = NoResponse
        /\ decode_attempted => (bytes_read /\ contents_len <= 5 * 1024 * 1024)

\* an upload declared text/plain, rejected
C5_Witness ==
    /\ ImageDone /\ content_type = "text/plain"
    /\ error.status_code = 400 /\ ~bytes_read

\* the response the two tallies give when the jitter is 0
ExpectedAtZeroJitter(ai, human, defaultStatus, defaultRaw, lo, hi) ==
    LET total == ai + human
        label == IF total = 0 THEN defaultStatus
                 ELSE IF 2 * ai > total THEN "ai-generated" ELSE "real"
        raw == IF total = 0 THEN defaultRaw
               ELSE IF 2 * ai > total THEN (100 * ai) \div total
               ELSE (100 * human) \div total
    IN [status |-> label,
        confidence |-> IF raw < lo THEN lo ELSE IF raw > hi THEN hi ELSE raw]

\* C6: with the jitter at 0 the response is a function of the two tallies:
\* ai/(ai+human), or 0.45 (text) or 0.5 (image) when both are 0;
\* "ai-generated" exactly when that is above 0.5; the confidence is the
\* floor of 100 times it (or of 100 times its complement), clamped to
\* 60..90 for text and 65..88 for images.
C6_DeterministicAtZeroJitter ==
    (pc = "done" /\ response # NoResponse /\ jitter[1] = 0) =>
        /\ route = "text" =>
              response = ExpectedAtZeroJitter(ai_indicators, human_indicators,
                                              "real", 55, 60, 90)
        /\ route = "image" =>
              response = ExpectedAtZeroJitter(ai_score, human_score, "real", 50, 65, 88)

\* equal non-zero tallies at jitter 0 give "real"
C6_Witness ==
    /\ TextDone /\ jitter[1] = 0
    /\ ai_indicators > 0 /\ ai_indicators = human_indicators
    /\ response.status = "real"

MidGray(s) == \A i \in 1 .. 3 : s[i][1] = s[i][2] /\ s[i][1] \notin {0, 255}

\* C7: a 512x512 image of uniform mid-gray without metadata has
\* ai_score = 3 + 2 + 1 + 2, plus 1 when its bytes per pixel are in [2, 4],
\* and human_score = 1, and is labelled "ai-generated" for every jitter.
C7_GraySquareExample ==
    (ImageDone /\ width = 512 /\ height = 512
       /\ stat.kind = "ok" /\ MidGray(stat.val)
       /\ exif.kind = "ok" /\ exif.tags = 0) =>
        /\ ai_score = 8 + (IF 2 * 512 * 512 <= contents_len /\ contents_len <= 4 * 512 * 512
                             THEN 1 ELSE 0)
        /\ human_score = 1
        /\ response.status = "ai-generated"

\* the example with the bytes-per-pixel signal firing, at the lowest jitter
C7_Witness ==
    /\ ImageDone /\ width = 512 /\ height = 512
    /\ stat.kind = "ok" /\ MidGray(stat.val)
    /\ exif.kind = "ok" /\ exif.tags = 0
    /\ ai_score = 9 /\ human_score = 1
    /\ jitter[1] < 0
    /\ response.status = "ai-generated"

\* C8: a failure of the color-extrema step leaves both scores as they were,
\* a failure of the metadata step adds exactly 1 to ai_score and leaves
\* human_score, and neither reaches the caller: the request still ends in a
\* response.
C8_ExtractionFailuresAbsorbed ==
    [][/\ (pc = "img_sig5" /\ stat'.kind = "raise") =>
             (ai_score' = ai_score /\ human_score' = human_score /\ error' = NoError
                /\ pc' = "img_sig6")
       /\ (pc = "img_sig6" /\ exif'.kind = "raise") =>
             (ai_score' = ai_score + 1 /\ human_score' = human_score /\ error' = NoError
                /\ pc' = "img_score")
       /\ (pc' = "done" /\ (stat'.kind = "raise" \/ exif'.kind = "raise")) =>
             (error' = NoError /\ response'.status \in Labels)]_vars

\* both extractions failed and the response was produced
C8_Witness ==
    /\ ImageDone
    /\ stat.kind = "raise" /\ exif.kind = "raise"
    /\ response.status \in Labels

\* C9: an image whose size is in the list of generator sizes has
\* ai_score >= 6 and human_score <= 4 after the six signals and is labelled
\* "ai-generated" whatever signals 4, 5, 6 and the jitter are.
C9_KnownSizeIsAI ==
    (route = "image" /\ pc \in {"img_score", "done"} /\ width > 0
       /\ (InList(<<width, height>>, common_ai_dimensions)
             \/ InList(<<height, width>>, common_ai_dimensions))) =>
        /\ ai_score >= 6
        /\ human_score <= 4
        /\ pc = "done" => response.status = "ai-generated"

\* the closest case: 6 against 4 at the lowest jitter
C9_Witness ==
    /\ ImageDone /\ DimensionMatch(width, height)
    /\ ai_score = 6 /\ human_score = 4
    /\ jitter[1] = -(JitterPct * JitterRes)
    /\ response.status = "ai-generated"

\* C10: a text on which no signal fires is answered "real" with confidence
\* 60 for every jitter.
C10_InconclusiveTextIsReal ==
    (TextDone /\ error = NoError /\ ai_indicators + human_indicators = 0) =>
        response = [status |-> "real", confidence |-> 60]

\* no signal fired and the jitter is the highest
C10_Witness ==
    /\ TextDone /\ error = NoError
    /\ ai_indicators + human_indicators = 0
    /\ jitter[1] = JitterPct * JitterRes
    /\ response = [status |-> "real", confidence |-> 60]

====
